---- MODULE Spec2Model ----
(***************************************************************************)
(* A model of pinotdb/db.py: the DB-API Connection and Cursor objects, the *)
(* decoding of a Pinot broker response into rows, and the inference of the *)
(* cursor description from the rows.                                       *)
(***************************************************************************)
EXTENDS Integers, Sequences, FiniteSets, TLC

VARIABLES
    closed,     \* Connection.closed
    cursors,    \* Connection.cursors: the Cursor objects, in creation order
    last        \* the last call made by the caller and how it ended

vars == <<closed, cursors, last>>

---------------------------------------------------------------------------
(* Python values.  A JSON scalar is a record tagged with its Python type;  *)
(* None is Null.  An optional attribute (one that may be None or a list)   *)
(* is NoneVal or Some(list).                                               *)
Str(s) == [t |-> "str", s |-> s, n |-> 0]
Num(n) == [t |-> "num", s |-> "", n |-> n]
Bool(b) == [t |-> "bool", s |-> "", n |-> IF b THEN 1 ELSE 0]
Null == [t |-> "null", s |-> "", n |-> 0]

NoneVal == <<>>
Some(x) == <<x>>
IsNone(o) == o = <<>>
The(o) == o[1]

(* dict.get(key, default) and `key in dict` on a JSON object, which is a   *)
(* function from its keys.                                                 *)
Has(d, key) == key \in DOMAIN d
Get(d, key, default) == IF key \in DOMAIN d THEN d[key] ELSE default

(* How a call ended: "ok", or the exception class raised and the raise     *)
(* site (why).                                                             *)
OK == [err |-> "ok", why |-> ""]
Raise(cls, why) == [err |-> cls, why |-> why]

---------------------------------------------------------------------------
(* An insertion-ordered Python dict: a sequence of items with distinct     *)
(* names.  Setting an existing name keeps its position.                    *)
dict_index(d, name) ==
    IF \E i \in 1..Len(d) : d[i].name = name
    THEN CHOOSE i \in 1..Len(d) : d[i].name = name
    ELSE 0

dict_set(d, name, value) ==
    IF dict_index(d, name) = 0
    THEN Append(d, [name |-> name, value |-> value])
    ELSE [d EXCEPT ![dict_index(d, name)].value = value]

dict_get(d, name) == d[dict_index(d, name)].value

Min(a, b) == IF a < b THEN a ELSE b

RECURSIVE dict_update_zip(_, _, _, _)
(* d.update(zip(names, values)), from position i on *)
dict_update_zip(d, names, values, i) ==
    IF i > Min(Len(names), Len(values)) THEN d
    ELSE dict_update_zip(dict_set(d, names[i], values[i]), names, values, i + 1)

dict_values(d) == [i \in 1..Len(d) |-> d[i].value]
dict_keys(d) == [i \in 1..Len(d) |-> d[i].name]

---------------------------------------------------------------------------
(* get_type: bool is a subclass of int, so isinstance(value, (int, float)) *)
(* accepts a bool and the BOOLEAN branch comes too late.                   *)
IsInstanceIntFloat(value) == value.t \in {"num", "bool"}

get_type(value) ==
    IF value.t = "str" THEN "STRING"
    ELSE IF IsInstanceIntFloat(value) THEN "NUMBER"
    ELSE IF value.t = "bool" THEN "BOOLEAN"
    ELSE "raise"

(* get_description_from_rows: the inner loop over the items of one row.    *)
(* st = [types, unknown_columns, out]; an unresolved type is "None".       *)
RECURSIVE scan_items(_, _, _)
scan_items(row, j, st) ==
    IF j > Len(row) THEN st
    ELSE
      LET name == row[j].name
          value == row[j].value
          st1 == IF dict_index(st.types, name) = 0
                 THEN [st EXCEPT !.types = dict_set(@, name, "None"),
                                 !.unknown_columns = @ + 1]
                 ELSE st
          current_type == dict_get(st1.types, name)
          new_type == get_type(value)
      IN  IF value = Null THEN scan_items(row, j + 1, st1)
          ELSE IF new_type = "raise"
          THEN [st1 EXCEPT !.out = Raise("Error", "unknown_type")]
          ELSE IF current_type = "None"
          THEN scan_items(row, j + 1,
                          [st1 EXCEPT !.types = dict_set(@, name, new_type),
                                      !.unknown_columns = @ - 1])
          ELSE IF new_type # current_type
          THEN [st1 EXCEPT !.out = Raise("DatabaseError", "type_conflict")]
          ELSE scan_items(row, j + 1, st1)

RECURSIVE scan_rows(_, _, _)
(* the outer loop, with its early break once no column is unresolved *)
scan_rows(rows, i, st) ==
    IF i > Len(rows) THEN st
    ELSE LET st1 == scan_items(rows[i], 1, st)
         IN  IF st1.out # OK THEN st1
             ELSE IF st1.unknown_columns <= 0 THEN st1
             ELSE scan_rows(rows, i + 1, st1)

Descriptor(name, type) == <<name, type, "None", "None", "None", "None", "None">>

get_description_from_rows(rows) ==
    LET st == scan_rows(rows, 1, [types |-> <<>>, unknown_columns |-> 0, out |-> OK])
    IN  [out |-> st.out,
         description |-> [i \in 1..Len(st.types) |->
                             Descriptor(st.types[i].name, st.types[i].value)]]

---------------------------------------------------------------------------
(* get_group_by_column_names *)
RECURSIVE group_by_cols_from(_, _, _)
group_by_cols_from(aggregation_results, i, group_by_cols) ==
    IF i > Len(aggregation_results) THEN [out |-> OK, cols |-> group_by_cols]
    ELSE LET gby_cols_for_metric == Get(aggregation_results[i], "groupByColumns", <<>>)
         IN  IF group_by_cols # <<>> /\ group_by_cols # gby_cols_for_metric
             THEN [out |-> Raise("DatabaseError", "cols_differ"), cols |-> <<>>]
             ELSE IF group_by_cols = <<>>
             THEN group_by_cols_from(aggregation_results, i + 1, gby_cols_for_metric)
             ELSE group_by_cols_from(aggregation_results, i + 1, group_by_cols)

get_group_by_column_names(aggregation_results) ==
    group_by_cols_from(aggregation_results, 1, <<>>)

---------------------------------------------------------------------------
(* The aggregation branch of Cursor.execute.  gby_rows is the OrderedDict  *)
(* from a tuple of group values to the list of metric values; metric       *)
(* position i counts from 1 here and from 0 in the source.                 *)
RECURSIVE str_join(_)
str_join(parts) ==
    IF parts = <<>> THEN "" ELSE Head(parts) \o str_join(Tail(parts))

total_group_vals_key == <<>>

NoneList(num_metrics) == [j \in 1..num_metrics |-> Null]

(* an entry that always starts its row afresh, dropping what earlier       *)
(* metrics wrote for the key                                               *)
group_entry_fresh_row(gby_rows, i, gb_result, gby_cols, num_metrics) ==
    LET group_values == gb_result.group
        extra == Len(group_values) - Len(gby_cols)
    IN  IF Len(group_values) < Len(gby_cols)
        THEN [out |-> Raise("DatabaseError", "insufficient_group_values"),
              gby_rows |-> gby_rows]
        ELSE IF Len(group_values) > Len(gby_cols) /\ Len(gby_cols) = 0
        THEN [out |-> Raise("IndexError", "new_group_values"), gby_rows |-> gby_rows]
        ELSE
          LET group_values_key ==
                  IF Len(group_values) > Len(gby_cols)
                  THEN [SubSeq(group_values, extra + 1, Len(group_values))
                           EXCEPT ![1] = str_join(SubSeq(group_values, 1, extra)) \o @]
                  ELSE group_values
          IN  [out |-> OK,
               gby_rows |-> dict_set(gby_rows, group_values_key,
                               [NoneList(num_metrics) EXCEPT ![i] = gb_result.value])]

(* one entry of a metric's groupByResult *)
group_entry(gby_rows, i, gb_result, gby_cols, num_metrics) ==
    LET group_values == gb_result.group
        extra == Len(group_values) - Len(gby_cols)
    IN  IF Len(group_values) < Len(gby_cols)
        THEN [out |-> Raise("DatabaseError", "insufficient_group_values"),
              gby_rows |-> gby_rows]
        ELSE IF Len(group_values) > Len(gby_cols) /\ Len(gby_cols) = 0
        THEN \* new_group_values is empty and new_group_values[0] is out of range
             [out |-> Raise("IndexError", "new_group_values"), gby_rows |-> gby_rows]
        ELSE
          LET group_values_key ==
                  IF Len(group_values) > Len(gby_cols)
                  THEN [SubSeq(group_values, extra + 1, Len(group_values))
                           EXCEPT ![1] = str_join(SubSeq(group_values, 1, extra)) \o @]
                  ELSE group_values
              rows1 == IF dict_index(gby_rows, group_values_key) = 0
                       THEN dict_set(gby_rows, group_values_key, NoneList(num_metrics))
                       ELSE gby_rows
          IN  [out |-> OK,
               gby_rows |-> dict_set(rows1, group_values_key,
                               [dict_get(rows1, group_values_key)
                                   EXCEPT ![i] = gb_result.value])]

RECURSIVE group_entries(_, _, _, _, _, _)
group_entries(gby_rows, i, group_by_result, j, gby_cols, num_metrics) ==
    IF j > Len(group_by_result) THEN [out |-> OK, gby_rows |-> gby_rows]
    ELSE LET r == group_entry(gby_rows, i, group_by_result[j], gby_cols, num_metrics)
         IN  IF r.out # OK THEN r
             ELSE group_entries(r.gby_rows, i, group_by_result, j + 1,
                                gby_cols, num_metrics)

(* one metric of aggregationResults: the body of the loop over them *)
metric_step(gby_rows, i, agg_result, gby_cols, num_metrics) ==
    IF Has(agg_result, "groupByResult")
    THEN IF dict_index(gby_rows, total_group_vals_key) # 0
         THEN [out |-> Raise("DatabaseError", "total_and_group_by"),
               gby_rows |-> gby_rows]
         ELSE group_entries(gby_rows, i, agg_result["groupByResult"], 1,
                            gby_cols, num_metrics)
    ELSE LET rows1 == IF dict_index(gby_rows, total_group_vals_key) = 0
                      THEN dict_set(gby_rows, total_group_vals_key,
                                    NoneList(num_metrics))
                      ELSE gby_rows
         IN  IF Len(rows1) # 1
             THEN [out |-> Raise("DatabaseError", "total_and_group_by"),
                   gby_rows |-> rows1]
             ELSE IF Len(gby_cols) > 0
             THEN [out |-> Raise("DatabaseError", "total_with_gby_cols"),
                   gby_rows |-> rows1]
             ELSE IF ~Has(agg_result, "value")
             THEN [out |-> Raise("KeyError", "value"), gby_rows |-> rows1]
             ELSE [out |-> OK,
                   gby_rows |-> dict_set(rows1, total_group_vals_key,
                                   [dict_get(rows1, total_group_vals_key)
                                       EXCEPT ![i] = agg_result["value"]])]

RECURSIVE metric_steps(_, _, _, _)
metric_steps(gby_rows, i, aggregation_results, gby_cols) ==
    IF i > Len(aggregation_results) THEN [out |-> OK, gby_rows |-> gby_rows]
    ELSE LET r == metric_step(gby_rows, i, aggregation_results[i], gby_cols,
                              Len(aggregation_results))
         IN  IF r.out # OK THEN r
             ELSE metric_steps(r.gby_rows, i + 1, aggregation_results, gby_cols)

StrValues(group_vals) == [j \in 1..Len(group_vals) |-> Str(group_vals[j])]

(* row = dict(zip(gby_cols, group_vals)); row.update(zip(metric_names, metric_vals)) *)
merged_row(gby_cols, group_vals, metric_names, metric_vals) ==
    dict_update_zip(dict_update_zip(<<>>, gby_cols, StrValues(group_vals), 1),
                    metric_names, metric_vals, 1)

RECURSIVE emit_rows(_, _, _, _, _)
(* the loop that turns gby_rows into rows *)
emit_rows(gby_rows, idx, gby_cols, metric_names, rows) ==
    IF idx > Len(gby_rows) THEN [out |-> OK, rows |-> rows]
    ELSE
      LET group_vals == gby_rows[idx].name
          metric_vals == gby_rows[idx].value
          row == merged_row(gby_cols, group_vals, metric_names, metric_vals)
      IN  IF Len(group_vals) # Len(gby_cols)
          THEN [out |-> Raise("DatabaseError", "group_vals_length"), rows |-> <<>>]
          ELSE IF Len(metric_vals) # Len(metric_names)
          THEN [out |-> Raise("DatabaseError", "metric_vals_length"), rows |-> <<>>]
          ELSE IF Len(row) # Len(gby_cols) + Len(metric_names)
          THEN [out |-> Raise("DatabaseError", "name_collision"), rows |-> <<>>]
          ELSE emit_rows(gby_rows, idx + 1, gby_cols, metric_names, Append(rows, row))

aggregation_rows(aggregation_results) ==
    LET g == get_group_by_column_names(aggregation_results)
        metric_names == [i \in 1..Len(aggregation_results) |->
                            aggregation_results[i]["function"]]
        m == metric_steps(<<>>, 1, aggregation_results, g.cols)
    IN  IF g.out # OK THEN [out |-> g.out, rows |-> <<>>]
        ELSE IF \E i \in 1..Len(aggregation_results) :
                    ~Has(aggregation_results[i], "function")
        THEN [out |-> Raise("KeyError", "function"), rows |-> <<>>]
        ELSE IF m.out # OK THEN [out |-> m.out, rows |-> <<>>]
        ELSE emit_rows(m.gby_rows, 1, g.cols, metric_names, <<>>)

(* the selection branch: one dict per result, zipped with the columns *)
selection_rows(results) ==
    [i \in 1..Len(results.results) |->
        dict_update_zip(<<>>, results.columns, results.results[i], 1)]

---------------------------------------------------------------------------
(* The checks of Cursor.execute on the decoded payload, in source order,   *)
(* and the rows of the payload.                                            *)
(* the check without the comparison of the two counts *)
timed_out_missing_only(payload) ==
    \/ Get(payload, "numServersResponded", -1) = -1
    \/ Get(payload, "numServersQueried", -1) = -1

(* the check with the comparison the other way round *)
timed_out_reversed(payload) ==
    \/ Get(payload, "numServersQueried", -1) < Get(payload, "numServersResponded", -1)
    \/ Get(payload, "numServersResponded", -1) = -1
    \/ Get(payload, "numServersQueried", -1) = -1

timed_out(payload) ==
    LET num_servers_responded == Get(payload, "numServersResponded", -1)
        num_servers_queried == Get(payload, "numServersQueried", -1)
    IN  \/ num_servers_queried > num_servers_responded
        \/ num_servers_responded = -1
        \/ num_servers_queried = -1

(* the checks with the status code looked at before the server counts *)
payload_rows_status_first(response) ==
    LET payload == response.payload
    IN  IF ~response.json
        THEN [out |-> Raise("DatabaseError", "json"), rows |-> <<>>]
        ELSE IF response.status_code # 200
        THEN [out |-> Raise("ProgrammingError", "status_code"), rows |-> <<>>]
        ELSE IF timed_out(payload)
        THEN [out |-> Raise("DatabaseError", "timed_out"), rows |-> <<>>]
        ELSE IF Get(payload, "exceptions", <<>>) # <<>>
        THEN [out |-> Raise("DatabaseError", "exceptions"), rows |-> <<>>]
        ELSE IF Has(payload, "aggregationResults")
        THEN aggregation_rows(payload["aggregationResults"])
        ELSE IF Has(payload, "selectionResults")
        THEN [out |-> OK, rows |-> selection_rows(payload["selectionResults"])]
        ELSE [out |-> OK, rows |-> <<>>]

payload_rows(response) ==
    LET payload == response.payload
    IN  IF ~response.json
        THEN [out |-> Raise("DatabaseError", "json"), rows |-> <<>>]
        ELSE IF timed_out(payload)
        THEN [out |-> Raise("DatabaseError", "timed_out"), rows |-> <<>>]
        ELSE IF response.status_code # 200
        THEN [out |-> Raise("ProgrammingError", "status_code"), rows |-> <<>>]
        ELSE IF Get(payload, "exceptions", <<>>) # <<>>
        THEN [out |-> Raise("DatabaseError", "exceptions"), rows |-> <<>>]
        ELSE IF Has(payload, "aggregationResults")
        THEN aggregation_rows(payload["aggregationResults"])
        ELSE IF Has(payload, "selectionResults")
        THEN [out |-> OK, rows |-> selection_rows(payload["selectionResults"])]
        ELSE [out |-> OK, rows |-> <<>>]

---------------------------------------------------------------------------
(* escape.  A parameter value is a text Text(chars), the sequence of its   *)
(* characters, a number, a boolean, None, or a list or tuple List(items).  *)
(* escape gives [out, value]: how it ended and the Python value it         *)
(* returned.                                                               *)
Text(chars) == [t |-> "str", s |-> chars, n |-> 0]
Number(n) == [t |-> "num", s |-> <<>>, n |-> n]
Boolean(b) == [t |-> "bool", s |-> <<>>, n |-> IF b THEN 1 ELSE 0]
NoneParam == [t |-> "null", s |-> <<>>, n |-> 0]
List(items) == [t |-> "list", s |-> items, n |-> 0]

RECURSIVE replace_quotes(_)
(* value.replace("'", "''") *)
replace_quotes(chars) ==
    IF chars = <<>> THEN <<>>
    ELSE (IF Head(chars) = "'" THEN <<"'", "'">> ELSE <<Head(chars)>>)
            \o replace_quotes(Tail(chars))

RECURSIVE join(_, _)
(* ', '.join(texts) from position i on *)
join(texts, i) ==
    IF i > Len(texts) THEN <<>>
    ELSE (IF i > 1 THEN <<",", " ">> ELSE <<>>) \o texts[i].s \o join(texts, i + 1)

(* The branches in source order: a bool is an int, so it leaves through    *)
(* the numeric branch unchanged.  str.join raises TypeError on an element  *)
(* that is not a string; a value of no listed type falls off the end and   *)
(* escape returns None.                                                    *)
RECURSIVE escape(_)
escape(value) ==
    IF value.t = "str" /\ value.s = <<"*">> THEN [out |-> OK, value |-> value]
    ELSE IF value.t = "str"
    THEN [out |-> OK, value |-> Text(<<"'">> \o replace_quotes(value.s) \o <<"'">>)]
    ELSE IF IsInstanceIntFloat(value) THEN [out |-> OK, value |-> value]
    ELSE IF value.t = "bool"
    THEN [out |-> OK,
          value |-> IF value.n = 1 THEN Text(<<"T", "R", "U", "E">>)
                    ELSE Text(<<"F", "A", "L", "S", "E">>)]
    ELSE IF value.t = "list"
    THEN LET elements == [i \in 1..Len(value.s) |-> escape(value.s[i])]
         IN  IF \E i \in 1..Len(elements) : elements[i].out # OK
             THEN [out |-> Raise("TypeError", "join"), value |-> NoneParam]
             ELSE IF \E i \in 1..Len(elements) : elements[i].value.t # "str"
             THEN [out |-> Raise("TypeError", "join"), value |-> NoneParam]
             ELSE [out |-> OK,
                   value |-> Text(join([i \in 1..Len(elements) |-> elements[i].value],
                                       1))]
    ELSE [out |-> OK, value |-> NoneParam]

(* apply_parameters: every parameter is escaped, then                      *)
(* `operation % escaped_parameters` raises KeyError when a named           *)
(* placeholder of the operation has no parameter.  The operation is the    *)
(* sequence of its placeholder names.                                      *)
apply_parameters(operation, parameters) ==
    IF \E key \in DOMAIN parameters : escape(parameters[key]).out # OK
    THEN Raise("TypeError", "join")
    ELSE IF \E i \in 1..Len(operation) : ~Has(parameters, operation[i])
    THEN Raise("KeyError", "placeholder")
    ELSE OK

---------------------------------------------------------------------------
(* The Cursor object.  results is the attribute _results.                  *)
new_cursor ==
    [arraysize |-> 1, closed |-> FALSE, description |-> NoneVal,
     rowcount |-> -1, results |-> NoneVal]

(* the guards of the two decorators: TRUE when the decorator raises *)
check_closed_never(self) == FALSE
check_closed(self) == self.closed
check_result(self) == IsNone(self.results)

AlreadyClosed == Raise("Error", "already_closed")
BeforeExecute == Raise("Error", "before_execute")

(* Each method below gives [out, self, ret]: how the call ended, the       *)
(* object afterwards and the value returned (a sequence of rows; None and  *)
(* "no value" are the empty sequence).                                     *)
Result(out, self, ret) == [out |-> out, self |-> self, ret |-> ret]

cursor_close_idempotent(self) == Result(OK, [self EXCEPT !.closed = TRUE], <<>>)

cursor_close(self) ==
    IF check_closed(self) THEN Result(AlreadyClosed, self, <<>>)
    ELSE Result(OK, [self EXCEPT !.closed = TRUE], <<>>)

(* The namedtuple Row has the keys of rows[0] as fields; building a Row    *)
(* from the values of a row fails unless the row has that many values.     *)
row_tuples(rows) == [i \in 1..Len(rows) |-> dict_values(rows[i])]

(* execute that adds the new rows to the rows still buffered *)
store_rows_extend(self, rows) ==
    Result(OK,
           [self EXCEPT !.description =
                           IF rows = <<>> THEN NoneVal
                           ELSE Some(get_description_from_rows(rows).description),
                        !.results =
                           Some((IF IsNone(@) THEN <<>> ELSE The(@)) \o row_tuples(rows))],
           <<>>)

(* execute that stores the rows as plain tuples, whatever their lengths *)
store_rows_unchecked(self, rows) ==
    LET d == get_description_from_rows(rows)
        cleared == [self EXCEPT !.description = NoneVal, !.results = Some(<<>>)]
    IN  IF rows = <<>> THEN Result(OK, cleared, <<>>)
        ELSE IF d.out # OK THEN Result(d.out, cleared, <<>>)
        ELSE Result(OK, [self EXCEPT !.description = Some(d.description),
                                     !.results = Some(row_tuples(rows))], <<>>)

(* execute that also sets rowcount to the number of rows *)
store_rows_counting(self, rows) ==
    LET d == get_description_from_rows(rows)
        cleared == [self EXCEPT !.description = NoneVal, !.results = Some(<<>>)]
    IN  IF rows = <<>> THEN Result(OK, [cleared EXCEPT !.rowcount = 0], <<>>)
        ELSE IF d.out # OK THEN Result(d.out, cleared, <<>>)
        ELSE IF \E i \in 1..Len(rows) : Len(rows[i]) # Len(rows[1])
        THEN Result(Raise("TypeError", "Row"),
                    [cleared EXCEPT !.description = Some(d.description)], <<>>)
        ELSE Result(OK, [self EXCEPT !.description = Some(d.description),
                                     !.results = Some(row_tuples(rows)),
                                     !.rowcount = Len(rows)], <<>>)

(* what execute stores for the rows, after self.description = None and     *)
(* self._results = []                                                      *)
store_rows(self, rows) ==
    LET d == get_description_from_rows(rows)
        cleared == [self EXCEPT !.description = NoneVal, !.results = Some(<<>>)]
    IN  IF rows = <<>> THEN Result(OK, cleared, <<>>)
        ELSE IF d.out # OK THEN Result(d.out, cleared, <<>>)
        ELSE IF \E i \in 1..Len(rows) : Len(rows[i]) # Len(rows[1])
        THEN Result(Raise("TypeError", "Row"),
                    [cleared EXCEPT !.description = Some(d.description)], <<>>)
        ELSE Result(OK, [self EXCEPT !.description = Some(d.description),
                                     !.results = Some(row_tuples(rows))], <<>>)

cursor_execute(self, operation, parameters, response) ==
    LET q == apply_parameters(operation, parameters)
        p == payload_rows(response)
    IN  IF check_closed(self) THEN Result(AlreadyClosed, self, <<>>)
        ELSE IF q # OK THEN Result(q, self, <<>>)
        ELSE IF p.out # OK THEN Result(p.out, self, <<>>)
        ELSE store_rows(self, p.rows)

cursor_executemany(self) ==
    IF check_closed(self) THEN Result(AlreadyClosed, self, <<>>)
    ELSE Result(Raise("NotSupportedError", "executemany"), self, <<>>)

(* fetchone without the check of the results *)
cursor_fetchone_unchecked(self) ==
    IF check_closed(self) THEN Result(AlreadyClosed, self, <<>>)
    ELSE IF IsNone(self.results) \/ The(self.results) = <<>> THEN Result(OK, self, <<>>)
    ELSE Result(OK, [self EXCEPT !.results = Some(Tail(The(self.results)))],
                <<Head(The(self.results))>>)

(* fetchone that takes the last row of the buffer, pop() for pop(0) *)
cursor_fetchone_last(self) ==
    IF check_result(self) THEN Result(BeforeExecute, self, <<>>)
    ELSE IF check_closed(self) THEN Result(AlreadyClosed, self, <<>>)
    ELSE IF The(self.results) = <<>> THEN Result(OK, self, <<>>)
    ELSE Result(OK,
                [self EXCEPT !.results =
                    Some(SubSeq(The(self.results), 1, Len(The(self.results)) - 1))],
                <<The(self.results)[Len(The(self.results))]>>)

cursor_fetchone(self) ==
    IF check_result(self) THEN Result(BeforeExecute, self, <<>>)
    ELSE IF check_closed(self) THEN Result(AlreadyClosed, self, <<>>)
    ELSE IF The(self.results) = <<>> THEN Result(OK, self, <<>>)
    ELSE Result(OK, [self EXCEPT !.results = Some(Tail(The(self.results)))],
                <<Head(The(self.results))>>)

(* list[:n] and list[n:], for any integer n *)
SliceEnd(list, n) ==
    IF n >= 0 THEN Min(n, Len(list))
    ELSE IF Len(list) + n > 0 THEN Len(list) + n ELSE 0
slice_to(list, n) == SubSeq(list, 1, SliceEnd(list, n))
slice_from(list, n) == SubSeq(list, SliceEnd(list, n) + 1, Len(list))

(* size = size or self.arraysize: None and 0 are both false *)
fetchmany_size(self, size) ==
    IF IsNone(size) \/ The(size) = 0 THEN self.arraysize ELSE The(size)

cursor_fetchmany(self, size) ==
    IF check_result(self) THEN Result(BeforeExecute, self, <<>>)
    ELSE IF check_closed(self) THEN Result(AlreadyClosed, self, <<>>)
    ELSE Result(OK,
                [self EXCEPT !.results =
                    Some(slice_from(The(self.results), fetchmany_size(self, size)))],
                slice_to(The(self.results), fetchmany_size(self, size)))

cursor_iter(self) ==
    IF check_closed(self) THEN Result(AlreadyClosed, self, <<>>)
    ELSE Result(OK, self, <<>>)

cursor_next(self) ==
    LET output == cursor_fetchone(self)
    IN  IF check_closed(self) THEN Result(AlreadyClosed, self, <<>>)
        ELSE IF output.out # OK THEN output
        ELSE IF output.ret = <<>>
        THEN Result(Raise("StopIteration", ""), output.self, <<>>)
        ELSE output

RECURSIVE list_of(_, _)
(* list(self): __iter__, then __next__ until StopIteration *)
list_of(self, acc) ==
    LET n == cursor_next(self)
    IN  IF n.out = OK THEN list_of(n.self, acc \o n.ret)
        ELSE IF n.out.err = "StopIteration" THEN Result(OK, n.self, acc)
        ELSE Result(n.out, n.self, <<>>)

cursor_fetchall(self) ==
    IF check_result(self) THEN Result(BeforeExecute, self, <<>>)
    ELSE IF check_closed(self) THEN Result(AlreadyClosed, self, <<>>)
    ELSE IF cursor_iter(self).out # OK THEN cursor_iter(self)
    ELSE list_of(self, <<>>)

cursor_setinputsizes(self) ==
    IF check_closed(self) THEN Result(AlreadyClosed, self, <<>>)
    ELSE Result(OK, self, <<>>)

cursor_setoutputsizes(self) ==
    IF check_closed(self) THEN Result(AlreadyClosed, self, <<>>)
    ELSE Result(OK, self, <<>>)

---------------------------------------------------------------------------
(* Bounds of the model and the inputs the caller and the broker supply.    *)
MaxCursors == 2     \* cursors created on the Connection
MaxSize == 2        \* largest fetchmany size and arraysize
MaxServers == 2     \* largest server count of a payload
MaxMetrics == 2     \* metrics of an aggregation response
MaxEntries == 3     \* groupByResult entries of an aggregation response

Response(status_code, payload) ==
    [json |-> TRUE, status_code |-> status_code, payload |-> payload]
NotJson == [json |-> FALSE, status_code |-> 200, payload |-> <<>>]

AllResponded == [numServersResponded |-> 1, numServersQueried |-> 1]

Selection(columns, results) ==
    AllResponded @@ [selectionResults |-> [columns |-> columns, results |-> results]]

Aggregation(aggregation_results) ==
    AllResponded @@ [aggregationResults |-> aggregation_results]

(* a query: the placeholder names of the operation and the parameters *)
Query(operation, parameters) == [operation |-> operation, parameters |-> parameters]
PlainQuery == Query(<<>>, <<>>)
Sizes == {NoneVal} \cup {Some(n) : n \in 0..MaxSize}

(* The calls of execute of the connection-level specification: one that    *)
(* yields two rows, one whose response is partial, one whose operation has *)
(* a placeholder without a parameter.                                      *)
RowOf(i) == <<Num(i), Str("x")>>
RowsOf(n) == [i \in 1..n |-> RowOf(i)]
SelectionOf(n) == Response(200, Selection(<<"a", "b">>, RowsOf(n)))
Partial == Response(200, [numServersResponded |-> 1, numServersQueried |-> 2])
ConnectionInputs ==
    {<<PlainQuery, SelectionOf(2)>>, <<PlainQuery, Partial>>,
     <<Query(<<"x">>, <<>>), SelectionOf(2)>>}

(* The calls of execute of the single-cursor specification: selections of  *)
(* up to MaxRows rows, one whose column changes type, one whose rows       *)
(* differ in length, ones whose rows are shorter or longer than the list   *)
(* of columns, aggregations, and a failure of each check.                  *)
MaxRows == 3
NoRows == Response(200, AllResponded)
TypeConflict ==
    Response(200, Selection(<<"a", "b">>, <<<<Num(1), Null>>, <<Str("s"), Null>>>>))
Ragged == Response(200, Selection(<<"a", "b">>, <<RowOf(1), <<Num(2)>>>>))
Grouped ==
    Response(200, Aggregation(<<
        [function |-> "count", groupByColumns |-> <<"city">>,
         groupByResult |-> <<[group |-> <<"NYC">>, value |-> Num(5)],
                             [group |-> <<"SF">>, value |-> Num(2)]>>]>>))
Global == Response(200, Aggregation(<<[function |-> "count", value |-> Num(42)]>>))
Short == Response(200, Selection(<<"a", "b">>, <<<<Num(1)>>, <<Num(2)>>>>))
Long == Response(200, Selection(<<"a">>, <<<<Num(1), Str("x")>>, <<Num(2)>>>>))
NoColumns == Response(200, Selection(<<>>, <<RowOf(1)>>))
CursorResponses ==
    {SelectionOf(n) : n \in 0..MaxRows}
    \cup {TypeConflict, Ragged, Short, Long, NoColumns,
          Grouped, Global, NoRows, Partial, NotJson,
          Response(500, AllResponded),
          Response(200, AllResponded @@ [exceptions |-> <<"e">>])}
CursorInputs ==
    {<<PlainQuery, response>> : response \in CursorResponses}
    \cup {<<Query(<<"x">>, <<>>), SelectionOf(1)>>,
          <<Query(<<"x">>, [x |-> Number(1)]), SelectionOf(1)>>}

(* The responses of the decoding specification.  First the ones that vary  *)
(* the server counts, the status and the exceptions.                       *)
CountFields(key) == {<<>>} \cup {key :> n : n \in -1..MaxServers}
ExceptionFields == {<<>>, [exceptions |-> <<>>], [exceptions |-> <<"e">>]}
ShapeFields ==
    {<<>>,
     [selectionResults |-> [columns |-> <<"a", "b">>, results |-> <<RowOf(1)>>]],
     [aggregationResults |-> <<[function |-> "count", value |-> Num(42)]>>],
     [selectionResults |-> [columns |-> <<"a", "b">>, results |-> <<RowOf(1)>>],
      aggregationResults |-> <<[function |-> "count", value |-> Num(42)]>>]}

(* The parameter values given to escape: texts of up to MaxChars           *)
(* characters, a number, the booleans, None, and lists of up to MaxItems   *)
(* of those.                                                               *)
MaxChars == 2
MaxItems == 2
Chars == {"a", "'", "*"}
Texts == UNION {{Text(chars) : chars \in [1..n -> Chars]} : n \in 0..MaxChars}
Scalars == Texts \cup {Number(1), Boolean(TRUE), Boolean(FALSE), NoneParam}

(* Then the selections over the columns a and b: up to MaxRows rows of two *)
(* values each, every value a number, a string, a boolean or null.         *)
SelectionValues == {Num(1), Str("s"), Bool(TRUE), Null}
SelectionRows(n) == [1..n -> [1..2 -> SelectionValues]]

(* Then the aggregations: m metrics whose groupByResult lists hold t       *)
(* entries in all, at most MaxEntries.  The entries are the sequence es;   *)
(* entry j belongs to metric owner[j], and owner never decreases.          *)
Entry(group, value) == [group |-> group, value |-> value]

Monotone(owner) == \A j \in 1..(Len(owner) - 1) : owner[j] <= owner[j + 1]

RECURSIVE EntriesOf(_, _, _, _)
EntriesOf(es, owner, i, j) ==
    IF j > Len(es) THEN <<>>
    ELSE (IF owner[j] = i THEN <<es[j]>> ELSE <<>>) \o EntriesOf(es, owner, i, j + 1)

(* every metric grouped by the column c; a metric named c collides with it *)
GroupedEntries ==
    {Entry(<<"x">>, Num(1)), Entry(<<"x">>, Str("s")), Entry(<<"y">>, Str("s")),
     Entry(<<>>, Num(1)), Entry(<<"x", "y">>, Num(1))}
GroupedNames == {"f", "g", "c"}
GroupedAggregation(names, es, owner) ==
    [i \in 1..Len(names) |->
        [function |-> names[i], groupByColumns |-> <<"c">>,
         groupByResult |-> EntriesOf(es, owner, i, 1)]]

(* grouped and flat metrics in one response, in every order; the metric at *)
(* position i is named MixedNames[i]                                       *)
MixedNames == <<"f", "g", "h", "k">>
MixedEntries == {Entry(<<>>, Num(1)), Entry(<<"x">>, Num(1))}
MixedColumns == {<<>>, [groupByColumns |-> <<>>], [groupByColumns |-> <<"c">>]}
MixedAggregation(grouped, columns, es, owner) ==
    [i \in 1..Len(columns) |->
        IF i \in grouped
        THEN [function |-> MixedNames[i],
              groupByResult |-> EntriesOf(es, owner, i, 1)] @@ columns[i]
        ELSE [function |-> MixedNames[i], value |-> Num(2)]]

(* grouped metrics only, each declaring its group-by columns or none; the  *)
(* metric at position i is named MixedNames[i]                             *)
DeclaredColumns ==
    {<<>>, [groupByColumns |-> <<>>], [groupByColumns |-> <<"c">>],
     [groupByColumns |-> <<"c", "d">>], [groupByColumns |-> <<"d", "c">>]}
DeclaredAggregation(columns, es, owner) ==
    MixedAggregation(1..Len(columns), columns, es, owner)

(* flat metrics only *)
GlobalAggregation(names, values) ==
    [i \in 1..Len(names) |-> [function |-> names[i], value |-> values[i]]]

---------------------------------------------------------------------------
(* The calls.  Each action is one call made by the caller: it records in   *)
(* last the method, the cursor it was made on (0 for the Connection), how  *)
(* it ended, what it returned and its argument.                            *)
Call(op, c, out, ret, arg) ==
    [op |-> op, c |-> c, out |-> out, ret |-> ret, arg |-> arg]

Cursors == 1..Len(cursors)

(* the Connection object, for the decorator *)
Connection == [closed |-> closed, cursors |-> cursors]

(* a Cursor method, with result r, called on cursor c *)
CursorCall(op, c, r, arg) ==
    /\ cursors' = [cursors EXCEPT ![c] = r.self]
    /\ last' = Call(op, c, r.out, r.ret, arg)
    /\ UNCHANGED closed

(* Connection.close that stops at the first cursor that is already closed *)
close_cursors_until_error(cs) ==
    [i \in 1..Len(cs) |->
        IF \E j \in 1..(i - 1) : cs[j].closed THEN cs[i] ELSE cursor_close(cs[i]).self]

(* the loop of Connection.close over the cursors: the already-closed error *)
(* of a cursor is swallowed                                                *)
close_cursors(cs) == [i \in 1..Len(cs) |-> cursor_close(cs[i]).self]

ConnectionClose ==
    \/ /\ check_closed(Connection)
       /\ last' = Call("Connection.close", 0, AlreadyClosed, <<>>, <<>>)
       /\ UNCHANGED <<closed, cursors>>
    \/ /\ ~check_closed(Connection)
       /\ closed' = TRUE
       /\ cursors' = close_cursors(cursors)
       /\ last' = Call("Connection.close", 0, OK, <<>>, <<>>)

(* Connection.__exit__ calls close() *)
ConnectionExit ==
    \/ /\ check_closed(Connection)
       /\ last' = Call("Connection.__exit__", 0, AlreadyClosed, <<>>, <<>>)
       /\ UNCHANGED <<closed, cursors>>
    \/ /\ ~check_closed(Connection)
       /\ closed' = TRUE
       /\ cursors' = close_cursors(cursors)
       /\ last' = Call("Connection.__exit__", 0, OK, <<>>, <<>>)

ConnectionCommit ==
    /\ last' = Call("Connection.commit", 0,
                    IF check_closed(Connection) THEN AlreadyClosed ELSE OK, <<>>, <<>>)
    /\ UNCHANGED <<closed, cursors>>

ConnectionCursor ==
    \/ /\ check_closed(Connection)
       /\ last' = Call("Connection.cursor", 0, AlreadyClosed, <<>>, <<>>)
       /\ UNCHANGED <<closed, cursors>>
    \/ /\ ~check_closed(Connection)
       /\ Len(cursors) < MaxCursors
       /\ cursors' = Append(cursors, new_cursor)
       /\ last' = Call("Connection.cursor", Len(cursors) + 1, OK, <<>>, <<>>)
       /\ UNCHANGED closed

(* Connection.__enter__ returns self.cursor() *)
ConnectionEnter ==
    \/ /\ check_closed(Connection)
       /\ last' = Call("Connection.__enter__", 0, AlreadyClosed, <<>>, <<>>)
       /\ UNCHANGED <<closed, cursors>>
    \/ /\ ~check_closed(Connection)
       /\ Len(cursors) < MaxCursors
       /\ cursors' = Append(cursors, new_cursor)
       /\ last' = Call("Connection.__enter__", Len(cursors) + 1, OK, <<>>, <<>>)
       /\ UNCHANGED closed

(* Connection.execute: a new cursor, kept in the list whether or not its   *)
(* execute succeeds                                                        *)
ConnectionExecute(query, response) ==
    \/ /\ check_closed(Connection)
       /\ last' = Call("Connection.execute", 0, AlreadyClosed, <<>>,
                       <<query, response>>)
       /\ UNCHANGED <<closed, cursors>>
    \/ /\ ~check_closed(Connection)
       /\ Len(cursors) < MaxCursors
       /\ LET r == cursor_execute(new_cursor, query.operation, query.parameters,
                                  response)
          IN  /\ cursors' = Append(cursors, r.self)
              /\ last' = Call("Connection.execute", Len(cursors) + 1, r.out, r.ret,
                              <<query, response>>)
       /\ UNCHANGED closed

CursorClose(c) ==
    /\ c \in Cursors
    /\ CursorCall("close", c, cursor_close(cursors[c]), <<>>)

CursorExecute(c, query, response) ==
    /\ c \in Cursors
    /\ CursorCall("execute", c,
                  cursor_execute(cursors[c], query.operation, query.parameters,
                                 response),
                  <<query, response>>)

CursorExecutemany(c) ==
    /\ c \in Cursors
    /\ CursorCall("executemany", c, cursor_executemany(cursors[c]), <<>>)

CursorFetchone(c) ==
    /\ c \in Cursors
    /\ CursorCall("fetchone", c, cursor_fetchone(cursors[c]), <<>>)

CursorFetchmany(c, size) ==
    /\ c \in Cursors
    /\ CursorCall("fetchmany", c, cursor_fetchmany(cursors[c], size), size)

CursorFetchall(c) ==
    /\ c \in Cursors
    /\ CursorCall("fetchall", c, cursor_fetchall(cursors[c]), <<>>)

CursorSetinputsizes(c) ==
    /\ c \in Cursors
    /\ CursorCall("setinputsizes", c, cursor_setinputsizes(cursors[c]), <<>>)

CursorSetoutputsizes(c) ==
    /\ c \in Cursors
    /\ CursorCall("setoutputsizes", c, cursor_setoutputsizes(cursors[c]), <<>>)

CursorIter(c) ==
    /\ c \in Cursors
    /\ CursorCall("__iter__", c, cursor_iter(cursors[c]), <<>>)

CursorNext(c) ==
    /\ c \in Cursors
    /\ CursorCall("__next__", c, cursor_next(cursors[c]), <<>>)

(* the caller writes the read/write attribute arraysize *)
SetArraysize(c, n) ==
    /\ c \in Cursors
    /\ CursorCall("arraysize", c,
                  Result(OK, [cursors[c] EXCEPT !.arraysize = n], <<>>), <<n>>)

---------------------------------------------------------------------------
(* The connection-level specification: one Connection, the cursors it      *)
(* creates and every method of both.  Init is the state after connect().   *)
Init ==
    /\ closed = FALSE
    /\ cursors = <<>>
    /\ last = Call("connect", 0, OK, <<>>, <<>>)

Next ==
    \/ ConnectionClose
    \/ ConnectionExit
    \/ ConnectionCommit
    \/ ConnectionCursor
    \/ ConnectionEnter
    \/ \E in \in ConnectionInputs : ConnectionExecute(in[1], in[2])
    \/ \E c \in Cursors : CursorClose(c)
    \/ \E c \in Cursors, in \in ConnectionInputs : CursorExecute(c, in[1], in[2])
    \/ \E c \in Cursors : CursorExecutemany(c)
    \/ \E c \in Cursors : CursorFetchone(c)
    \/ \E c \in Cursors, size \in Sizes : CursorFetchmany(c, size)
    \/ \E c \in Cursors : CursorFetchall(c)
    \/ \E c \in Cursors : CursorSetinputsizes(c)
    \/ \E c \in Cursors : CursorSetoutputsizes(c)
    \/ \E c \in Cursors : CursorIter(c)
    \/ \E c \in Cursors : CursorNext(c)

Spec == Init /\ [][Next]_vars

(* The single-cursor specification: the state after conn.cursor(), then    *)
(* every method of that Cursor and writes of its arraysize.                *)
InitCursor ==
    /\ closed = FALSE
    /\ cursors = <<new_cursor>>
    /\ last = Call("Connection.cursor", 1, OK, <<>>, <<>>)

NextCursor ==
    \/ CursorClose(1)
    \/ \E in \in CursorInputs : CursorExecute(1, in[1], in[2])
    \/ CursorExecutemany(1)
    \/ CursorFetchone(1)
    \/ \E size \in Sizes : CursorFetchmany(1, size)
    \/ CursorFetchall(1)
    \/ CursorSetinputsizes(1)
    \/ CursorSetoutputsizes(1)
    \/ CursorIter(1)
    \/ CursorNext(1)
    \/ \E n \in 0..MaxSize : SetArraysize(1, n)

SpecCursor == InitCursor /\ [][NextCursor]_vars

(* The escaping specification: one call of escape, for every parameter     *)
(* value.                                                                  *)
EscapeCall(value) ==
    Call("escape", 0, escape(value).out, <<escape(value).value>>, <<value>>)

EscapeScalar ==
    /\ last.op = "connect"
    /\ \E value \in Scalars : last' = EscapeCall(value)
    /\ UNCHANGED <<closed, cursors>>

EscapeList ==
    /\ last.op = "connect"
    /\ \E n \in 0..MaxItems : \E items \in [1..n -> Scalars] :
           last' = EscapeCall(List(items))
    /\ UNCHANGED <<closed, cursors>>

NextEscape ==
    \/ EscapeScalar
    \/ EscapeList

SpecEscape == Init /\ [][NextEscape]_vars

(* The decoding specification: one execute on a new cursor, for every      *)
(* response of each family above.                                          *)
FirstCall == last.op = "Connection.cursor"

DecodeValidation ==
    /\ FirstCall
    /\ \E status_code \in {200, 500},
          r \in CountFields("numServersResponded"),
          q \in CountFields("numServersQueried"),
          e \in ExceptionFields, shape \in ShapeFields :
           CursorExecute(1, PlainQuery, Response(status_code, r @@ q @@ e @@ shape))

DecodeNotJson ==
    /\ FirstCall
    /\ CursorExecute(1, PlainQuery, NotJson)

DecodeSelection ==
    /\ FirstCall
    /\ \/ \E response \in {SelectionOf(2), TypeConflict, Ragged} :
              CursorExecute(1, PlainQuery, response)
       \/ \E n \in 0..MaxRows : \E results \in SelectionRows(n) :
              CursorExecute(1, PlainQuery,
                            Response(200, Selection(<<"a", "b">>, results)))

DecodeGrouped ==
    /\ FirstCall
    /\ \E m \in 1..MaxMetrics, t \in 0..MaxEntries :
         \E names \in [1..m -> GroupedNames], es \in [1..t -> GroupedEntries],
            owner \in [1..t -> 1..m] :
             /\ Monotone(owner)
             /\ CursorExecute(1, PlainQuery, Response(200,
                    Aggregation(GroupedAggregation(names, es, owner))))

DecodeMixed ==
    /\ FirstCall
    /\ \E m \in 2..MaxMetrics, t \in 0..MaxEntries :
         \E grouped \in (SUBSET (1..m)) \ {{}, 1..m},
            columns \in [1..m -> MixedColumns], es \in [1..t -> MixedEntries],
            owner \in [1..t -> 1..m] :
             /\ Monotone(owner)
             /\ \A j \in 1..t : owner[j] \in grouped
             /\ \A i \in (1..m) \ grouped : columns[i] = <<>>
             /\ CursorExecute(1, PlainQuery, Response(200,
                    Aggregation(MixedAggregation(grouped, columns, es, owner))))

DecodeDeclared ==
    /\ FirstCall
    /\ \E m \in 1..MaxMetrics, t \in 0..MaxEntries :
         \E columns \in [1..m -> DeclaredColumns], es \in [1..t -> MixedEntries],
            owner \in [1..t -> 1..m] :
             /\ Monotone(owner)
             /\ CursorExecute(1, PlainQuery, Response(200,
                    Aggregation(DeclaredAggregation(columns, es, owner))))

DecodeGlobal ==
    /\ FirstCall
    /\ \E m \in 1..MaxMetrics :
         \E names \in [1..m -> {"f", "g"}], values \in [1..m -> {Num(1), Null}] :
             CursorExecute(1, PlainQuery,
                           Response(200, Aggregation(GlobalAggregation(names, values))))

NextDecode ==
    \/ DecodeValidation
    \/ DecodeNotJson
    \/ DecodeSelection
    \/ DecodeGrouped
    \/ DecodeMixed
    \/ DecodeDeclared
    \/ DecodeGlobal

SpecDecode == InitCursor /\ [][NextDecode]_vars

---------------------------------------------------------------------------
(* Properties.  A step of the specifications is one call; last' describes  *)
(* the call of the step and the unprimed variables the state it was made   *)
(* in.                                                                     *)
GuardedCursorCalls ==
    {"execute", "executemany", "fetchone", "fetchmany", "fetchall",
     "setinputsizes", "setoutputsizes", "__iter__", "__next__"}
GuardedConnectionCalls ==
    {"Connection.cursor", "Connection.execute", "Connection.commit",
     "Connection.close"}
UsageError(out) == out.err = "Error"

(* C1: a call of execute, executemany, fetchone, fetchmany, fetchall,      *)
(* setinputsizes, setoutputsizes, __iter__ or __next__ on a closed Cursor, *)
(* and a call of cursor, execute, commit or close on a closed Connection,  *)
(* raises the usage error and changes neither the Connection nor any       *)
(* Cursor.                                                                 *)
C1_ClosedGuard ==
    [][/\ \A c \in Cursors :
            (cursors[c].closed /\ last'.c = c /\ last'.op \in GuardedCursorCalls)
            => (UsageError(last'.out) /\ UNCHANGED <<closed, cursors>>)
       /\ (closed /\ last'.op \in GuardedConnectionCalls)
            => (UsageError(last'.out) /\ UNCHANGED <<closed, cursors>>)]_vars

(* a fetch on a cursor that had results and was closed was refused *)
C1_Witness ==
    /\ last.op = "fetchmany"
    /\ last.out = AlreadyClosed
    /\ cursors[last.c].closed
    /\ ~IsNone(cursors[last.c].results)
    /\ ~closed

(* C2, as the spec states it: close() on an already-closed Cursor does not *)
(* fail and changes nothing.                                               *)
C2_CloseTwiceIsNoOp ==
    [][\A c \in Cursors :
          (cursors[c].closed /\ last'.c = c /\ last'.op = "close")
          => (last'.out = OK /\ UNCHANGED <<closed, cursors>>)]_vars

(* C2, as the code has it: close() on an already-closed Cursor raises the  *)
(* usage error and changes nothing; the Cursor stays closed.               *)
C2_CloseTwiceRaises ==
    [][\A c \in Cursors :
          (cursors[c].closed /\ last'.c = c /\ last'.op = "close")
          => (last'.out = AlreadyClosed /\ UNCHANGED <<closed, cursors>>)]_vars

(* close() was refused on a cursor that its Connection had closed *)
C2_Witness ==
    /\ last.op = "close"
    /\ last.out = AlreadyClosed
    /\ closed
    /\ cursors[last.c].closed

(* C3: closing an open Connection succeeds and leaves it and each of its   *)
(* cursors closed, none added or dropped; and after every call a closed    *)
(* Connection owns no open Cursor.                                         *)
C3_CloseClosesAll ==
    [][/\ (~closed /\ last'.op = "Connection.close")
            => /\ last'.out = OK
               /\ closed'
               /\ Len(cursors') = Len(cursors)
       /\ closed' => \A c \in 1..Len(cursors') : cursors'[c].closed]_vars

(* a Connection with MaxCursors cursors, one created by execute, was closed *)
C3_Witness ==
    /\ last.op = "Connection.close"
    /\ last.out = OK
    /\ closed
    /\ Len(cursors) >= 2
    /\ \E c \in Cursors : ~IsNone(cursors[c].results)
    /\ \E c \in Cursors : IsNone(cursors[c].results)

FetchCalls == {"fetchone", "fetchmany", "fetchall", "__next__"}

(* C4: on an open Cursor without results (execute never called, or never   *)
(* got as far as storing any), fetchone, fetchmany, fetchall and the       *)
(* __next__ of an iteration raise the usage error "called before execute", *)
(* return nothing and leave the Cursor as it was.                          *)
C4_FetchBeforeExecute ==
    [][\A c \in Cursors :
          (/\ IsNone(cursors[c].results)
           /\ ~cursors[c].closed
           /\ last'.c = c
           /\ last'.op \in FetchCalls)
          => (last'.out = BeforeExecute /\ last'.ret = <<>> /\ UNCHANGED cursors)]_vars

(* fetchall was refused on an open cursor that has no results *)
C4_Witness ==
    /\ last.op = "fetchall"
    /\ last.out = BeforeExecute
    /\ ~cursors[last.c].closed
    /\ IsNone(cursors[last.c].results)

(* the batch size the claim gives fetchmany: the size passed, or arraysize *)
(* when none is passed                                                     *)
RequestedSize(self, size) == IF IsNone(size) THEN self.arraysize ELSE The(size)

(* C5: on an executed, open Cursor with r buffered rows, fetchmany(n)      *)
(* succeeds, returns the first min(n, r) rows in order and removes exactly *)
(* those, where n is arraysize when no size is passed.                     *)
C5_FetchmanyTakesMin ==
    [][\A c \in Cursors :
          (/\ ~IsNone(cursors[c].results)
           /\ ~cursors[c].closed
           /\ last'.c = c
           /\ last'.op = "fetchmany")
          => LET buffer == The(cursors[c].results)
                 n == Min(RequestedSize(cursors[c], last'.arg), Len(buffer))
             IN  /\ last'.out = OK
                 /\ last'.ret = SubSeq(buffer, 1, n)
                 /\ cursors'[c].results = Some(SubSeq(buffer, n + 1, Len(buffer)))]_vars

(* C6: after an execute that returned, the buffer of the Cursor holds the  *)
(* rows of that call's response, all of them and nothing else, and the     *)
(* description is the one of those rows (None when there are none),        *)
(* whatever the Cursor held before.                                        *)
C6_ExecuteReplaces ==
    (last.op = "execute" /\ last.out = OK)
    => LET self == cursors[last.c]
           rows == payload_rows(last.arg[2]).rows
       IN  /\ self.results = Some(row_tuples(rows))
           /\ self.description =
                 IF rows = <<>> THEN NoneVal
                 ELSE Some(get_description_from_rows(rows).description)
           /\ \A n \in 0..MaxRows :
                 last.arg[2] = SelectionOf(n) =>
                    /\ self.results = Some(RowsOf(n))
                    /\ n > 0 => self.description =
                          Some(<<Descriptor("a", "NUMBER"), Descriptor("b", "STRING")>>)

(* an execute returned the rows of a two-row selection *)
C6_Witness ==
    /\ last.op = "execute"
    /\ last.out = OK
    /\ last.arg[2] = SelectionOf(2)
    /\ cursors[last.c].results = Some(RowsOf(2))

---------------------------------------------------------------------------
(* Properties of the decoding.  They read the response of the last call.   *)
TimedOut == Raise("DatabaseError", "timed_out")
ExecutedJson == last.op = "execute" /\ last.arg[2].json
LastPayload == last.arg[2].payload
Responded == Get(LastPayload, "numServersResponded", -1)
Queried == Get(LastPayload, "numServersQueried", -1)
BothCounts ==
    Has(LastPayload, "numServersResponded") /\ Has(LastPayload, "numServersQueried")

(* C7: execute raises the timed-out error when the payload reports fewer   *)
(* servers responded than queried, and does not raise it when the two      *)
(* counts are present, equal and not -1.                                   *)
C7_PartialResponseFails ==
    (ExecutedJson /\ BothCounts)
    => /\ Responded < Queried => last.out = TimedOut
       /\ (Responded = Queried /\ Responded # -1) => last.out # TimedOut

(* two servers were queried, one responded, and execute raised timed out *)
C7_Witness ==
    /\ ExecutedJson
    /\ BothCounts
    /\ Queried = 2
    /\ Responded = 1
    /\ last.out = TimedOut

(* C8, as the spec states it: execute raises the timed-out error when      *)
(* numServersQueried is absent, -1 or less than numServersResponded, or    *)
(* numServersResponded is -1 or absent.                                    *)
C8_QueriedLessFails ==
    ExecutedJson
    => ((\/ ~Has(LastPayload, "numServersQueried")
         \/ Queried = -1
         \/ Queried < Responded
         \/ ~Has(LastPayload, "numServersResponded")
         \/ Responded = -1)
        => last.out = TimedOut)

(* C8, as the code has it: the comparison is the other way round.  execute *)
(* raises the timed-out error exactly when numServersQueried is absent, -1 *)
(* or greater than numServersResponded, or numServersResponded is -1 or    *)
(* absent; so with both counts present, neither -1 and numServersQueried   *)
(* less than numServersResponded it does not raise it.                     *)
C8_QueriedGreaterFails ==
    ExecutedJson
    => /\ (\/ ~Has(LastPayload, "numServersQueried")
           \/ Queried = -1
           \/ Queried > Responded
           \/ ~Has(LastPayload, "numServersResponded")
           \/ Responded = -1)
          <=> last.out = TimedOut
       /\ (BothCounts /\ Queried # -1 /\ Responded # -1 /\ Queried < Responded)
          => last.out # TimedOut

(* numServersQueried was absent, one server responded, and execute raised  *)
(* timed out                                                               *)
C8_Witness ==
    /\ ExecutedJson
    /\ ~Has(LastPayload, "numServersQueried")
    /\ Responded = 1
    /\ last.out = TimedOut

(* the response passed the three checks and is an aggregation *)
ExecutedAggregation ==
    /\ ExecutedJson
    /\ ~(Queried > Responded \/ Queried = -1 \/ Responded = -1)
    /\ last.arg[2].status_code = 200
    /\ Get(LastPayload, "exceptions", <<>>) = <<>>
    /\ Has(LastPayload, "aggregationResults")
LastMetrics == LastPayload["aggregationResults"]
Metrics == 1..Len(LastMetrics)

(* every metric carries per-group results, under one list of group-by      *)
(* columns that names at least one column                                  *)
AllGrouped ==
    /\ ExecutedAggregation
    /\ LastMetrics # <<>>
    /\ Get(LastMetrics[1], "groupByColumns", <<>>) # <<>>
    /\ \A i \in Metrics :
          /\ Has(LastMetrics[i], "groupByResult")
          /\ Get(LastMetrics[i], "groupByColumns", <<>>)
                = Get(LastMetrics[1], "groupByColumns", <<>>)
GroupColumns == Get(LastMetrics[1], "groupByColumns", <<>>)

(* the key of a group entry: its group values, the excess leading ones     *)
(* joined into the first one kept                                          *)
KeyOf(group) ==
    LET extra == Len(group) - Len(GroupColumns)
    IN  IF extra > 0
        THEN [SubSeq(group, extra + 1, Len(group))
                 EXCEPT ![1] = str_join(SubSeq(group, 1, extra)) \o @]
        ELSE group

(* the places of the entries, in response order *)
Places == {<<i, j>> : i \in Metrics, j \in 1..MaxEntries + 1} \cap
          {p \in Metrics \X (1..MaxEntries + 1) :
              p[2] <= Len(LastMetrics[p[1]]["groupByResult"])}
EntryAt(p) == LastMetrics[p[1]]["groupByResult"][p[2]]
Before(p, q) == p[1] < q[1] \/ (p[1] = q[1] /\ p[2] < q[2])
Keys == {KeyOf(EntryAt(p).group) : p \in Places}
FirstSeen(key) ==
    CHOOSE p \in Places :
        /\ KeyOf(EntryAt(p).group) = key
        /\ \A q \in Places : KeyOf(EntryAt(q).group) = key => ~Before(q, p)
(* the value metric i reports for a key: the one of its last entry for the *)
(* key, null when it has none                                              *)
Reported(i, key) ==
    LET mine == {p \in Places : p[1] = i /\ KeyOf(EntryAt(p).group) = key}
    IN  IF mine = {} THEN Null
        ELSE EntryAt(CHOOSE p \in mine : \A q \in mine : ~Before(p, q)).value

(* the rows are one per key, in first-seen order, each the group values of *)
(* its key and then the value of every metric                              *)
RowsAsClaimed(rows) ==
    /\ Len(rows) = Cardinality(Keys)
    /\ \A key \in Keys : \E r \in 1..Len(rows) :
          rows[r] = StrValues(key) \o [i \in Metrics |-> Reported(i, key)]
    /\ \A r1, r2 \in 1..Len(rows) : \A k1, k2 \in Keys :
          (/\ r1 < r2
           /\ SubSeq(rows[r1], 1, Len(GroupColumns)) = StrValues(k1)
           /\ SubSeq(rows[r2], 1, Len(GroupColumns)) = StrValues(k2))
          => Before(FirstSeen(k1), FirstSeen(k2))

(* C9, as the spec states it: for a response whose metrics are all grouped *)
(* under one column list, execute yields one row per distinct group key,   *)
(* in first-seen order, each the key's values and then one value per       *)
(* metric, null where the metric has no entry for the key.                 *)
C9_GroupedRowsAlways ==
    AllGrouped
    => /\ last.out = OK
       /\ RowsAsClaimed(The(cursors[last.c].results))

(* what execute raises on a grouped response it rejects *)
GroupedRejections ==
    {"insufficient_group_values", "group_vals_length", "metric_vals_length",
     "name_collision", "type_conflict"}

(* C9, as the code has it: execute either returns with exactly those rows  *)
(* or raises a DatabaseError, for an entry with too few group values, for  *)
(* colliding names or for a column whose values change type.               *)
C9_GroupedRowsOnSuccess ==
    AllGrouped
    => \/ /\ last.out = OK
          /\ RowsAsClaimed(The(cursors[last.c].results))
       \/ /\ last.out.err = "DatabaseError"
          /\ last.out.why \in GroupedRejections

(* two metrics, the key x reported by both and merged into one row, the    *)
(* key y by the second only, its row null for the first metric             *)
C9_Witness ==
    /\ AllGrouped
    /\ last.out = OK
    /\ cursors[last.c].results =
          Some(<<<<Str("x"), Num(1), Str("s")>>, <<Str("y"), Null, Str("s")>>>>)

SchemaErrors ==
    {"cols_differ", "total_and_group_by", "total_with_gby_cols",
     "insufficient_group_values", "group_vals_length", "metric_vals_length",
     "name_collision", "type_conflict"}

(* C10: a response with a metric that carries a groupByResult and a metric *)
(* that carries only a flat value and no groupByColumns makes execute      *)
(* raise a schema error.                                                   *)
C10_TotalAndGroupedRejected ==
    (/\ ExecutedAggregation
     /\ \E i \in Metrics : Has(LastMetrics[i], "groupByResult")
     /\ \E i \in Metrics :
           /\ ~Has(LastMetrics[i], "groupByResult")
           /\ ~Has(LastMetrics[i], "groupByColumns")
           /\ Has(LastMetrics[i], "value"))
    => (last.out.err = "DatabaseError" /\ last.out.why \in SchemaErrors)

(* C11: a response whose metrics declare different groupByColumns lists,   *)
(* a metric that declares none counting as the empty list, is rejected by  *)
(* execute, which produces no rows.                                        *)
C11_DifferingColumnsRejected ==
    (/\ ExecutedAggregation
     /\ \E i, j \in Metrics :
           Get(LastMetrics[i], "groupByColumns", <<>>)
              # Get(LastMetrics[j], "groupByColumns", <<>>))
    => /\ last.out # OK
       /\ IsNone(cursors[last.c].results)

(* the response passed the three checks and is a selection *)
ExecutedSelection ==
    /\ ExecutedJson
    /\ ~(Queried > Responded \/ Queried = -1 \/ Responded = -1)
    /\ last.arg[2].status_code = 200
    /\ Get(LastPayload, "exceptions", <<>>) = <<>>
    /\ ~Has(LastPayload, "aggregationResults")
    /\ Has(LastPayload, "selectionResults")
LastColumns == LastPayload["selectionResults"].columns
LastResults == LastPayload["selectionResults"].results

(* the non-null values of column j of the selection *)
ColumnValues(j) ==
    {LastResults[i][j] : i \in {r \in 1..Len(LastResults) : j <= Len(LastResults[r])}}
        \ {Null}

(* the type that the description gives the column called name *)
DescribedType(name) ==
    LET description == The(cursors[last.c].description)
    IN  description[CHOOSE d \in 1..Len(description) : description[d][1] = name][2]

TypeOfKind(kind) ==
    CASE kind = "str" -> "STRING"
      [] kind = "num" -> "NUMBER"
      [] kind = "bool" -> "BOOLEAN"

(* C12: when the non-null values of a column are all strings, all numbers  *)
(* or all booleans, the description gives the column the type STRING,      *)
(* NUMBER or BOOLEAN respectively; a column of booleans is BOOLEAN.        *)
C12_UniformColumnTyped ==
    (ExecutedSelection /\ last.out = OK)
    => \A j \in 1..Len(LastColumns) : \A kind \in {"str", "num", "bool"} :
          (/\ ColumnValues(j) # {}
           /\ \A value \in ColumnValues(j) : value.t = kind)
          => DescribedType(LastColumns[j]) = TypeOfKind(kind)

(* the scan of get_description_from_rows when it looks at every row *)
RECURSIVE scan_every_row(_, _, _)
scan_every_row(rows, i, st) ==
    IF i > Len(rows) THEN st
    ELSE LET st1 == scan_items(rows[i], 1, st)
         IN  IF st1.out # OK THEN st1 ELSE scan_every_row(rows, i + 1, st1)

TypeConflictError == Raise("DatabaseError", "type_conflict")

(* C13: when a column of the rows has non-null values of two different     *)
(* inferred types, execute raises the type-conflict error, and the scan    *)
(* that stops early ends as the scan of every row does.                    *)
C13_TypeConflictDetected ==
    ExecutedSelection
    => LET rows == selection_rows(LastPayload["selectionResults"])
       IN  /\ (\E j \in 1..Len(LastColumns) : \E v, w \in ColumnValues(j) :
                  get_type(v) # get_type(w))
              => last.out = TypeConflictError
           /\ get_description_from_rows(rows).out
                 = scan_every_row(rows, 1, [types |-> <<>>, unknown_columns |-> 0,
                                            out |-> OK]).out

(* C14: rowcount is -1 in every state of a Cursor, whatever execute,       *)
(* fetch, iteration and close calls were made on it and however they       *)
(* ended.                                                                  *)
C14_RowcountUnknown == \A c \in Cursors : cursors[c].rowcount = -1

(* a row was fetched after an execute that returned rows, and rowcount is  *)
(* still -1                                                                *)
C14_Witness ==
    /\ last.op = "fetchone"
    /\ last.out = OK
    /\ last.ret # <<>>
    /\ cursors[last.c].rowcount = -1

(* C15: escape returns the text TRUE for the boolean true and the text     *)
(* FALSE for the boolean false.                                            *)
C15_BooleanKeyword ==
    (last.op = "escape" /\ last.arg[1].t = "bool")
    => /\ last.out = OK
       /\ last.ret[1] = IF last.arg[1] = Boolean(TRUE) THEN Text(<<"T", "R", "U", "E">>)
                        ELSE Text(<<"F", "A", "L", "S", "E">>)

StatusError == Raise("ProgrammingError", "status_code")
ExceptionsError == Raise("DatabaseError", "exceptions")

(* the rows of the shape of the payload: the aggregation if there is one,  *)
(* else the selection if there is one, else no rows                        *)
ShapeRows ==
    IF Has(LastPayload, "aggregationResults")
    THEN aggregation_rows(LastPayload["aggregationResults"])
    ELSE IF Has(LastPayload, "selectionResults")
    THEN [out |-> OK, rows |-> selection_rows(LastPayload["selectionResults"])]
    ELSE [out |-> OK, rows |-> <<>>]

(* C16: execute raises the error of the first check that fails, the server *)
(* counts, then the status code, then the exceptions; a response that      *)
(* passes the three is decoded by its shape, aggregationResults before     *)
(* selectionResults, and one with neither gives zero rows and no error.    *)
C16_ValidationOrder ==
    ExecutedJson
    => IF Queried > Responded \/ Queried = -1 \/ Responded = -1
       THEN last.out = TimedOut
       ELSE IF last.arg[2].status_code # 200
       THEN last.out = StatusError
       ELSE IF Get(LastPayload, "exceptions", <<>>) # <<>>
       THEN last.out = ExceptionsError
       ELSE /\ last.out \notin {TimedOut, StatusError, ExceptionsError}
            /\ ShapeRows.out # OK => last.out = ShapeRows.out
            /\ last.out = OK
                  => cursors[last.c].results = Some(row_tuples(ShapeRows.rows))
            /\ (/\ ~Has(LastPayload, "aggregationResults")
                /\ ~Has(LastPayload, "selectionResults"))
               => (last.out = OK /\ cursors[last.c].results = Some(<<>>))

(* a response that fails all three checks raised the timed-out error *)
C16_Witness ==
    /\ ExecutedJson
    /\ BothCounts
    /\ Queried = 2
    /\ Responded = 1
    /\ last.arg[2].status_code = 500
    /\ Get(LastPayload, "exceptions", <<>>) # <<>>
    /\ last.out = TimedOut

(* C17: every fetchone, fetchmany, fetchall and __next__ on an open Cursor  *)
(* that has results hands out a prefix of the buffer and leaves the rest:  *)
(* the rows returned followed by the rows still buffered are the rows      *)
(* buffered before the call.  So over any sequence of such calls the rows  *)
(* handed out, in call order, followed by the buffer are the rows of the   *)
(* execute.  fetchone returns None exactly on an empty buffer, without     *)
(* error; fetchall returns the whole buffer and empties it; __next__       *)
(* raises StopIteration exactly on an empty buffer.                        *)
C17_FetchInOrder ==
    [][\A c \in Cursors :
          (/\ ~IsNone(cursors[c].results)
           /\ ~cursors[c].closed
           /\ last'.c = c
           /\ last'.op \in FetchCalls)
          => LET before == The(cursors[c].results)
                 after == The(cursors'[c].results)
             IN  /\ ~IsNone(cursors'[c].results)
                 /\ last'.ret \o after = before
                 /\ last'.out = OK \/ last'.out.err = "StopIteration"
                 /\ last'.op = "fetchone"
                       => /\ last'.out = OK
                          /\ Len(last'.ret) = IF before = <<>> THEN 0 ELSE 1
                 /\ last'.op = "fetchall"
                       => (last'.out = OK /\ last'.ret = before /\ after = <<>>)
                 /\ last'.op = "fetchmany" => last'.out = OK
                 /\ last'.op = "__next__"
                       => /\ last'.out.err = "StopIteration" <=> before = <<>>
                          /\ Len(last'.ret) = IF before = <<>> THEN 0 ELSE 1
                 /\ [cursors'[c] EXCEPT !.results = cursors[c].results] = cursors[c]]_vars

(* fetchmany handed out the first two of three rows and left the third *)
C17_Witness ==
    /\ last.op = "fetchmany"
    /\ last.out = OK
    /\ last.ret = <<RowOf(1), RowOf(2)>>
    /\ cursors[last.c].results = Some(<<RowOf(3)>>)

(* the number of group-by columns of the response: the length of the first *)
(* non-empty groupByColumns list, 0 when no metric declares any column     *)
ColumnCount ==
    LET declaring == {i \in Metrics : Get(LastMetrics[i], "groupByColumns", <<>>) # <<>>}
    IN  IF declaring = {} THEN 0
        ELSE Len(LastMetrics[CHOOSE i \in declaring : \A j \in declaring : i <= j]
                    ["groupByColumns"])

(* every metric is grouped and the metrics agree on the group-by columns *)
GroupedAgreeing ==
    /\ ExecutedAggregation
    /\ \A i \in Metrics : Has(LastMetrics[i], "groupByResult")
    /\ \A i, j \in Metrics :
          Get(LastMetrics[i], "groupByColumns", <<>>)
             = Get(LastMetrics[j], "groupByColumns", <<>>)

(* C18: with k group-by columns, k >= 0, an entry with fewer than k group  *)
(* values makes execute raise a schema error, an entry with more is folded *)
(* to k values, every row emitted carries k group-by values and then one   *)
(* value per metric, and execute fails in no other way over the number of  *)
(* group values: it returns or raises a DatabaseError.                     *)
C18_GroupArity ==
    GroupedAgreeing
    => /\ last.out = OK \/ last.out.err = "DatabaseError"
       /\ (\E i \in Metrics : \E j \in 1..Len(LastMetrics[i]["groupByResult"]) :
              Len(LastMetrics[i]["groupByResult"][j].group) < ColumnCount)
          => (last.out.err = "DatabaseError" /\ last.out.why \in SchemaErrors)
       /\ last.out = OK
          => \A r \in 1..Len(The(cursors[last.c].results)) :
                Len(The(cursors[last.c].results)[r]) = ColumnCount + Len(LastMetrics)

(* C19: an execute that raises leaves the Cursor as it was: its buffer,    *)
(* its description and its closed flag are those of before the call.       *)
C19_FailedExecuteAtomic ==
    [][\A c \in Cursors :
          (last'.c = c /\ last'.op = "execute" /\ last'.out # OK)
          => cursors'[c] = cursors[c]]_vars

(* C20: after an execute that returned, the description is None exactly    *)
(* when the response decoded to no rows; otherwise it has one descriptor   *)
(* per column of the rows, in the rows' column order and without duplicate *)
(* names, and every buffered row has that many fields.  In every later     *)
(* state the buffered rows still have as many fields as the description    *)
(* has descriptors.                                                        *)
C20_DescriptionMatchesRows ==
    /\ (last.op = "execute" /\ last.out = OK)
       => LET rows == payload_rows(last.arg[2]).rows
              self == cursors[last.c]
          IN  /\ IsNone(self.description) <=> rows = <<>>
              /\ Len(The(self.results)) = Len(rows)
              /\ rows # <<>>
                 => LET description == The(self.description)
                    IN  /\ [d \in 1..Len(description) |-> description[d][1]]
                              = dict_keys(rows[1])
                        /\ \A d, e \in 1..Len(description) :
                              description[d][1] = description[e][1] => d = e
    /\ \A c \in Cursors :
          (~IsNone(cursors[c].description) /\ ~IsNone(cursors[c].results))
          => \A r \in 1..Len(The(cursors[c].results)) :
                Len(The(cursors[c].results)[r]) = Len(The(cursors[c].description))

(* a selection whose two rows are shorter than its list of columns: one    *)
(* descriptor and rows of one field                                        *)
C20_Witness ==
    /\ last.op = "execute"
    /\ last.out = OK
    /\ last.arg[2] = Short
    /\ cursors[last.c].description = Some(<<Descriptor("a", "NUMBER")>>)
    /\ cursors[last.c].results = Some(<<<<Num(1)>>, <<Num(2)>>>>)

====
